---- MODULE Spec2Model ----
(***************************************************************************)
(* Model of scripts/update_positioning.py: the substitution engine         *)
(* apply_replacements and the run driver main.                             *)
(*                                                                         *)
(* A text (Python str) is a sequence of characters over Chars.  A          *)
(* Replacement is a record [old, new, label].                              *)
(*                                                                         *)
(* Eight specifications:                                                   *)
(*   SpecEngine - one call of apply_replacements on drawn inputs, stepped  *)
(*                one loop iteration at a time;                            *)
(*   SpecTwice  - the same call followed by a second call on the text the  *)
(*                first one returned;                                      *)
(*   Spec       - runs of main over a drawn table and drawn files;         *)
(*   SpecFair   - Spec with weak fairness of the steps of a run;           *)
(*   SpecIO     - one run of main in which a file operation may raise;     *)
(*   SpecOrder  - a run of main repeated from the same files with the      *)
(*                table's entries in another order;                        *)
(*   SpecRace   - one run of main with the read and the write of a file as *)
(*                separate steps, beside another writer;                   *)
(*   SpecTable  - main from its first add call, with paths registered more *)
(*                than once.                                               *)
(***************************************************************************)
EXTENDS Integers, Sequences, FiniteSets, TLC

VARIABLES
    \* ---- apply_replacements (SpecEngine) ----
    epc,             \* "idle" | "loop" | "returned"
    arg_text,        \* the text argument of the current call
    replacements,    \* the replacements argument
    text,            \* local variable text (line 34, reassigned on line 39)
    changed_labels,  \* local variable changed_labels (line 35)
    k,               \* number of replacements the for loop has consumed
    call,            \* 1 for the first call, 2 for the call on its output
    first,           \* the pair returned by the first call (<<>> before)
    \* ---- main (Spec) ----
    pc,              \* "idle" | "build" | "loop" | "done" | "crashed"
    targets,         \* the table: sequence of [path, repls], insertion order
    files,           \* the file system: path -> File(text) or Missing
    check,           \* args.check
    idx,             \* position of the for loop of line 612 in targets
    any_changed,     \* local variable any_changed
    out,             \* the console: sequence of printed lines
    ret,             \* main's return value: <<>> while running, then <<0>>
    pre,             \* the file system when the current run started
    run,             \* number of runs started so far
    prev,            \* <<>>, or <<[check, pre, out]>> of the previous run
    \* ---- another process writing to the target files (SpecRace) ----
    theirs,          \* <<>>, or <<t>>: the text another writer put into the
                     \* file being processed after main read it
    \* ---- the add calls of main (SpecTable) ----
    adds             \* the add calls of lines 55-608, in source order:
                     \* sequence of [path, repls]

evars == <<epc, arg_text, replacements, text, changed_labels, k, call, first>>
mvars == <<pc, targets, files, check, idx, any_changed, out, ret, pre, run, prev,
          theirs, adds>>
vars == <<epc, arg_text, replacements, text, changed_labels, k, call, first,
          pc, targets, files, check, idx, any_changed, out, ret, pre, run, prev,
          theirs, adds>>

(***************************************************************************)
(* Bounds and input sets                                                   *)
(***************************************************************************)
MaxTextLen == 2
MaxRules == 2

Chars == {"a", "b"}
Labels == {"L1", "L2"}

RECURSIVE StrsOfLen(_)
StrsOfLen(n) ==
    IF n = 0 THEN {<<>>}
    ELSE {Append(s, c) : s \in StrsOfLen(n - 1), c \in Chars}

StrsUpTo(n) == UNION {StrsOfLen(m) : m \in 0..n}

Texts == StrsUpTo(MaxTextLen)

Olds == {<<>>, <<"a">>, <<"b">>, <<"a", "a">>}
News == {<<>>, <<"a">>, <<"b">>}

\* class Replacement (frozen dataclass)
Replacement == [old : Olds, new : News, label : Labels]

RECURSIVE ListsOfLen(_)
ListsOfLen(n) ==
    IF n = 0 THEN {<<>>}
    ELSE {Append(l, r) : l \in ListsOfLen(n - 1), r \in Replacement}

RuleLists == UNION {ListsOfLen(n) : n \in 0..MaxRules}

(***************************************************************************)
(* Python str operations                                                   *)
(***************************************************************************)
\* old in text
Contains(t, old) ==
    \E i \in 0..(Len(t) - Len(old)) : SubSeq(t, i + 1, i + Len(old)) = old

\* t.replace("", new): new before every character and at the end
RECURSIVE Interleave(_, _)
Interleave(t, new) ==
    IF t = <<>> THEN new
    ELSE new \o <<Head(t)>> \o Interleave(Tail(t), new)

\* t.replace(old, new): left-to-right scan, non-overlapping matches
RECURSIVE ReplaceScan(_, _, _)
ReplaceScan(t, old, new) ==
    IF Len(t) < Len(old) THEN t
    ELSE IF SubSeq(t, 1, Len(old)) = old
         THEN new \o ReplaceScan(SubSeq(t, Len(old) + 1, Len(t)), old, new)
         ELSE <<Head(t)>> \o ReplaceScan(Tail(t), old, new)

\* A replace that stops after the first match (str.replace(old, new, 1)).
ReplaceFirstOnly(t, old, new) ==
    IF old = <<>> THEN new \o t
    ELSE IF ~Contains(t, old) THEN t
    ELSE LET p == CHOOSE i \in 0..(Len(t) - Len(old)) :
                      /\ SubSeq(t, i + 1, i + Len(old)) = old
                      /\ \A j \in 0..(i - 1) : SubSeq(t, j + 1, j + Len(old)) # old
         IN SubSeq(t, 1, p) \o new \o SubSeq(t, p + Len(old) + 1, Len(t))

Replace(t, old, new) ==
    IF old = <<>> THEN Interleave(t, new) ELSE ReplaceScan(t, old, new)

(***************************************************************************)
(* apply_replacements                                                      *)
(***************************************************************************)
\* A loop body whose test is inverted (if repl.old in text: continue).
LoopBodyInverted(t, labels, repl) ==
    IF Contains(t, repl.old) THEN <<t, labels>>
    ELSE <<Replace(t, repl.old, repl.new), Append(labels, repl.label)>>

\* A loop body that appends the label before the membership test.
LoopBodyAlwaysLabel(t, labels, repl) ==
    IF ~Contains(t, repl.old) THEN <<t, Append(labels, repl.label)>>
    ELSE <<Replace(t, repl.old, repl.new), Append(labels, repl.label)>>

\* A loop body that puts the label at the front (changed_labels.insert(0, ..)).
LoopBodyPrepend(t, labels, repl) ==
    IF ~Contains(t, repl.old) THEN <<t, labels>>
    ELSE <<Replace(t, repl.old, repl.new), <<repl.label>> \o labels>>

\* A loop body that replaces but forgets changed_labels.append.
LoopBodyNoLabel(t, labels, repl) ==
    IF ~Contains(t, repl.old) THEN <<t, labels>>
    ELSE <<Replace(t, repl.old, repl.new), labels>>

\* One iteration of the for loop: the pair <<text, changed_labels>> after it.
LoopBody(t, labels, repl) ==
    IF ~Contains(t, repl.old) THEN <<t, labels>>
    ELSE <<Replace(t, repl.old, repl.new), Append(labels, repl.label)>>

RECURSIVE ApplyFrom(_, _, _, _)
ApplyFrom(t, labels, repls, n) ==
    IF n > Len(repls) THEN <<t, labels>>
    ELSE LET r == LoopBody(t, labels, repls[n])
         IN ApplyFrom(r[1], r[2], repls, n + 1)

\* An engine that leaves the files of one label alone (a result that depends
\* on file_label).
apply_replacementsByLabel(t, repls, file_label) ==
    IF file_label = "p2" THEN <<t, <<>>>> ELSE ApplyFrom(t, <<>>, repls, 1)

\* apply_replacements(text, replacements, file_label=...): <<text, labels>>;
\* the body never reads file_label
apply_replacements(t, repls, file_label) == ApplyFrom(t, <<>>, repls, 1)

(***************************************************************************)
(* SpecEngine: a call of apply_replacements, one loop iteration per step   *)
(***************************************************************************)
\* a path of the file system: no file, or a file with its text
Missing == [exists |-> FALSE, data |-> <<>>]
File(t) == [exists |-> TRUE, data |-> t]

\* main has not returned: ret is <<>>, then <<0>>
NoRet == <<>>

MainIdle ==
    /\ pc = "idle" /\ targets = <<>> /\ files = <<>> /\ check = FALSE
    /\ idx = 0 /\ any_changed = FALSE /\ out = <<>> /\ ret = NoRet
    /\ pre = <<>> /\ run = 0 /\ prev = <<>> /\ theirs = <<>>
    /\ adds = <<>>

InitEngine ==
    /\ epc = "loop"
    /\ arg_text \in Texts
    /\ replacements \in RuleLists
    /\ text = arg_text
    /\ changed_labels = <<>>
    /\ k = 0
    /\ call = 1
    /\ first = <<>>
    /\ MainIdle

\* An iteration that tests the rule against the text the call was given
\* (if repl.old not in original) instead of the current text.
IterateOnOriginal ==
    /\ epc = "loop"
    /\ k < Len(replacements)
    /\ LET repl == replacements[k + 1]
       IN IF ~Contains(arg_text, repl.old)
          THEN UNCHANGED <<text, changed_labels>>
          ELSE /\ text' = Replace(text, repl.old, repl.new)
               /\ changed_labels' = Append(changed_labels, repl.label)
    /\ k' = k + 1
    /\ UNCHANGED <<epc, arg_text, replacements, call, first>>
    /\ UNCHANGED mvars

\* An iteration that has no outcome when the rule does not match (a lookup
\* such as text.index(repl.old), which raises on absence).
IterateRaises ==
    /\ epc = "loop"
    /\ k < Len(replacements)
    /\ Contains(text, replacements[k + 1].old)
    /\ LET r == LoopBody(text, changed_labels, replacements[k + 1])
       IN /\ text' = r[1]
          /\ changed_labels' = r[2]
    /\ k' = k + 1
    /\ UNCHANGED <<epc, arg_text, replacements, call, first>>
    /\ UNCHANGED mvars

\* for repl in replacements: ... (lines 36-40), one iteration
Iterate ==
    /\ epc = "loop"
    /\ k < Len(replacements)
    /\ LET r == LoopBody(text, changed_labels, replacements[k + 1])
       IN /\ text' = r[1]
          /\ changed_labels' = r[2]
    /\ k' = k + 1
    /\ UNCHANGED <<epc, arg_text, replacements, call, first>>
    /\ UNCHANGED mvars

\* return text, changed_labels (line 42)
Return ==
    /\ epc = "loop"
    /\ k = Len(replacements)
    /\ epc' = "returned"
    /\ first' = IF call = 1 THEN <<text, changed_labels>> ELSE first
    /\ UNCHANGED <<arg_text, replacements, text, changed_labels, k, call>>
    /\ UNCHANGED mvars

\* a second call, on the text the first call returned, with the same rules
CallAgain ==
    /\ epc = "returned"
    /\ call = 1
    /\ call' = 2
    /\ epc' = "loop"
    /\ arg_text' = text
    /\ text' = text
    /\ changed_labels' = <<>>
    /\ k' = 0
    /\ UNCHANGED <<replacements, first>>
    /\ UNCHANGED mvars

NextEngine == Iterate \/ Return

SpecEngine == InitEngine /\ [][NextEngine]_vars

\* the same call followed by a second one on its output
NextTwice == Iterate \/ Return \/ CallAgain

SpecTwice == InitEngine /\ [][NextTwice]_vars

(***************************************************************************)
(* main: the table                                                         *)
(***************************************************************************)
MaxRuns == 2

Paths == {"p1", "p2"}

FileTexts == {<<>>, <<"a">>, <<"b">>, <<"a", "b">>, <<"b", "a">>}

Rule(o, n, l) == [old |-> o, new |-> n, label |-> l]

\* the rule lists a path can be registered with
TableLists ==
    { <<Rule(<<"a">>, <<"b">>, "L1")>>,
      <<Rule(<<"a">>, <<"b">>, "L1"), Rule(<<"b">>, <<"a">>, "L2")>>,
      <<Rule(<<"a", "b">>, <<>>, "L1"), Rule(<<"b">>, <<"b">>, "L2")>> }

\* the orders in which main registers paths
AddOrders == {<<"p1">>, <<"p1", "p2">>, <<"p2", "p1">>}

\* An add that extends the list of a path registered before
\* (targets.setdefault(ROOT / rel_path, []).extend(repls)).
addExtends(tbl, rel_path, repls) ==
    IF \E i \in 1..Len(tbl) : tbl[i].path = rel_path
    THEN [i \in 1..Len(tbl) |->
             IF tbl[i].path = rel_path
             THEN [path |-> rel_path, repls |-> tbl[i].repls \o repls]
             ELSE tbl[i]]
    ELSE Append(tbl, [path |-> rel_path, repls |-> repls])

\* add(rel_path, *repls): targets[ROOT / rel_path] = list(repls).  A dict
\* keeps a key's first position when the key is assigned again.
add(tbl, rel_path, repls) ==
    IF \E i \in 1..Len(tbl) : tbl[i].path = rel_path
    THEN [i \in 1..Len(tbl) |->
             IF tbl[i].path = rel_path
             THEN [path |-> rel_path, repls |-> repls] ELSE tbl[i]]
    ELSE Append(tbl, [path |-> rel_path, repls |-> repls])

RECURSIVE BuildTable(_, _)
BuildTable(tbl, regs) ==
    IF regs = <<>> THEN tbl
    ELSE BuildTable(add(tbl, Head(regs).path, Head(regs).repls), Tail(regs))

Tables ==
    UNION {{BuildTable(<<>>, [i \in 1..Len(o) |->
                                 [path |-> o[i], repls |-> ls[i]]]) :
               ls \in [1..Len(o) -> TableLists]} : o \in AddOrders}

(***************************************************************************)
(* main: the labels of the table of lines 55-608                           *)
(***************************************************************************)
\* one row per add call, in source order: the path and the labels of its
\* Replacement arguments
LabelRows ==
    <<
      [path |-> "en/index.html",
       labels |-> <<"en:index:lead", "en:index:how-we-work",
                    "en:index:good-ai-detail",
                    "en:index:project-ai-line">>],
      [path |-> "de/index.html",
       labels |-> <<"de:index:lead", "de:index:how-we-work",
                    "de:index:good-ai-detail",
                    "de:index:project-ai-line">>],
      [path |-> "fr/index.html",
       labels |-> <<"fr:index:lead", "fr:index:how-we-work",
                    "fr:index:good-ai-detail",
                    "fr:index:project-ai-line">>],
      [path |-> "es/index.html",
       labels |-> <<"es:index:lead", "es:index:how-we-work",
                    "es:index:good-ai-detail",
                    "es:index:project-ai-line">>],
      [path |-> "it/index.html",
       labels |-> <<"it:index:lead", "it:index:how-we-work",
                    "it:index:good-ai-detail",
                    "it:index:project-ai-line">>],
      [path |-> "nl/index.html",
       labels |-> <<"nl:index:lead", "nl:index:how-we-work",
                    "nl:index:good-ai-detail",
                    "nl:index:project-ai-line">>],
      [path |-> "en/about.html",
       labels |-> <<"en:about:heading", "en:about:section",
                    "en:about:how-we-build", "en:about:ai-paragraph",
                    "en:about:business-model">>],
      [path |-> "de/about.html",
       labels |-> <<"de:about:heading", "de:about:section",
                    "de:about:how-we-build", "de:about:ai-paragraph",
                    "de:about:business-model">>],
      [path |-> "fr/about.html",
       labels |-> <<"fr:about:heading", "fr:about:section",
                    "fr:about:how-we-build", "fr:about:ai-paragraph",
                    "fr:about:business-model">>],
      [path |-> "es/about.html",
       labels |-> <<"es:about:heading", "es:about:section",
                    "es:about:how-we-build", "es:about:ai-paragraph",
                    "es:about:business-model">>],
      [path |-> "it/about.html",
       labels |-> <<"it:about:heading", "it:about:section",
                    "it:about:how-we-build", "it:about:ai-paragraph",
                    "it:about:business-model">>],
      [path |-> "nl/about.html",
       labels |-> <<"nl:about:heading", "nl:about:section",
                    "nl:about:how-we-build", "nl:about:ai-paragraph",
                    "nl:about:business-model">>],
      [path |-> "en/principles.html",
       labels |-> <<"en:principles:pricing", "en:principles:ux",
                    "en:principles:data",
                    "en:principles:monetization", "en:principles:ai",
                    "en:principles:restrained",
                    "en:principles:boundaries">>],
      [path |-> "de/principles.html",
       labels |-> <<"de:principles:pricing", "de:principles:ux",
                    "de:principles:data",
                    "de:principles:monetization", "de:principles:ai",
                    "de:principles:restrained",
                    "de:principles:boundaries">>],
      [path |-> "fr/principles.html",
       labels |-> <<"fr:principles:pricing", "fr:principles:ux",
                    "fr:principles:data",
                    "fr:principles:monetization", "fr:principles:ai",
                    "fr:principles:restrained",
                    "fr:principles:boundaries">>],
      [path |-> "es/principles.html",
       labels |-> <<"es:principles:pricing", "es:principles:ux",
                    "es:principles:data",
                    "es:principles:monetization", "es:principles:ai",
                    "es:principles:restrained",
                    "es:principles:boundaries">>],
      [path |-> "it/principles.html",
       labels |-> <<"it:principles:pricing", "it:principles:ux",
                    "it:principles:data",
                    "it:principles:monetization", "it:principles:ai",
                    "it:principles:restrained",
                    "it:principles:boundaries">>],
      [path |-> "nl/principles.html",
       labels |-> <<"nl:principles:pricing", "nl:principles:ux",
                    "nl:principles:data",
                    "nl:principles:monetization", "nl:principles:ai",
                    "nl:principles:restrained",
                    "nl:principles:boundaries">>]
    >>

\* The table with the label of the first rule of en/index.html copied onto
\* the second (a Replacement pasted without renaming its label).
MainLabelsPasted ==
    [LabelRows EXCEPT ![1].labels[2] = LabelRows[1].labels[1]]

\* the labels registered for each path by main
MainLabels == LabelRows

(***************************************************************************)
(* main: the run driver                                                    *)
(***************************************************************************)
\* the printed lines; ', '.join(changed) is kept as the label sequence
WarnLine(p) == [kind |-> "WARN", path |-> p, labels |-> <<>>]
OkLine(p) == [kind |-> "OK", path |-> p, labels |-> <<>>]
EditLine(p, ls) == [kind |-> "EDIT", path |-> p, labels |-> ls]
SummaryLine == [kind |-> "NONE", path |-> "", labels |-> <<>>]

EngineIdle ==
    /\ epc = "idle" /\ arg_text = <<>> /\ replacements = <<>> /\ text = <<>>
    /\ changed_labels = <<>> /\ k = 0 /\ call = 0 /\ first = <<>>

Init ==
    /\ pc = "loop"
    /\ targets \in Tables
    /\ files \in [Paths -> {File(t) : t \in FileTexts} \cup {Missing}]
    /\ check \in BOOLEAN
    /\ idx = 1
    /\ any_changed = FALSE
    /\ out = <<>>
    /\ ret = NoRet
    /\ pre = files
    /\ run = 1
    /\ prev = <<>>
    /\ theirs = <<>>
    /\ adds = targets
    /\ EngineIdle

InLoop == pc = "loop" /\ idx <= Len(targets)

\* the content path.write_text leaves in the file system
WriteText(fs, p, data) == [fs EXCEPT ![p] = File(data)]

\* A missing file that is created empty when it is reported.
MissingFileCreates ==
    /\ InLoop
    /\ ~files[targets[idx].path].exists
    /\ out' = Append(out, WarnLine(targets[idx].path))
    /\ files' = IF check THEN files
                ELSE WriteText(files, targets[idx].path, <<>>)
    /\ idx' = idx + 1
    /\ UNCHANGED <<pc, targets, check, any_changed, ret, pre, run, prev>>
    /\ UNCHANGED <<evars, theirs, adds>>

\* A missing file that ends the loop (break instead of continue).
MissingFileBreak ==
    /\ InLoop
    /\ ~files[targets[idx].path].exists
    /\ out' = Append(out, WarnLine(targets[idx].path))
    /\ idx' = Len(targets) + 1
    /\ UNCHANGED <<pc, targets, files, check, any_changed, ret, pre, run, prev>>
    /\ UNCHANGED <<evars, theirs, adds>>

\* lines 613-615: the file does not exist
MissingFile ==
    /\ InLoop
    /\ ~files[targets[idx].path].exists
    /\ out' = Append(out, WarnLine(targets[idx].path))
    /\ idx' = idx + 1
    /\ UNCHANGED <<pc, targets, files, check, any_changed, ret, pre, run, prev>>
    /\ UNCHANGED <<evars, theirs, adds>>

\* A file without a match that is passed over without a line.
NoChangesSilent ==
    /\ InLoop
    /\ files[targets[idx].path].exists
    /\ LET path == targets[idx].path
           original == files[path].data
           r == apply_replacements(original, targets[idx].repls, path)
       IN r[2] = <<>>
    /\ idx' = idx + 1
    /\ UNCHANGED <<pc, targets, files, check, any_changed, out, ret, pre, run,
                   prev>>
    /\ UNCHANGED <<evars, theirs, adds>>

\* lines 617-622: the file exists and no rule matched
NoChanges ==
    /\ InLoop
    /\ files[targets[idx].path].exists
    /\ LET path == targets[idx].path
           original == files[path].data
           r == apply_replacements(original, targets[idx].repls, path)
       IN /\ r[2] = <<>>
          /\ out' = Append(out, OkLine(path))
    /\ idx' = idx + 1
    /\ UNCHANGED <<pc, targets, files, check, any_changed, ret, pre, run, prev>>
    /\ UNCHANGED <<evars, theirs, adds>>

\* An edit that writes whatever args.check says.
EditAlwaysWrites ==
    /\ InLoop
    /\ files[targets[idx].path].exists
    /\ LET path == targets[idx].path
           original == files[path].data
           r == apply_replacements(original, targets[idx].repls, path)
       IN /\ r[2] # <<>>
          /\ any_changed' = TRUE
          /\ out' = Append(out, EditLine(path, r[2]))
          /\ files' = WriteText(files, path, r[1])
    /\ idx' = idx + 1
    /\ UNCHANGED <<pc, targets, check, ret, pre, run, prev>>
    /\ UNCHANGED <<evars, theirs, adds>>

\* An edit that writes back the text it read (original instead of updated).
EditWritesOriginal ==
    /\ InLoop
    /\ files[targets[idx].path].exists
    /\ LET path == targets[idx].path
           original == files[path].data
           r == apply_replacements(original, targets[idx].repls, path)
       IN /\ r[2] # <<>>
          /\ any_changed' = TRUE
          /\ out' = Append(out, EditLine(path, r[2]))
          /\ files' = IF ~check THEN WriteText(files, path, original) ELSE files
    /\ idx' = idx + 1
    /\ UNCHANGED <<pc, targets, check, ret, pre, run, prev>>
    /\ UNCHANGED <<evars, theirs, adds>>

\* An edit after which the loop stays on the same target.
EditStays ==
    /\ InLoop
    /\ files[targets[idx].path].exists
    /\ LET path == targets[idx].path
           original == files[path].data
           r == apply_replacements(original, targets[idx].repls, path)
       IN /\ r[2] # <<>>
          /\ any_changed' = TRUE
          /\ out' = Append(out, EditLine(path, r[2]))
          /\ files' = IF ~check THEN WriteText(files, path, r[1]) ELSE files
    /\ UNCHANGED <<pc, targets, check, idx, ret, pre, run, prev>>
    /\ UNCHANGED <<evars, theirs, adds>>

\* lines 617-628: the file exists and at least one rule matched
Edit ==
    /\ InLoop
    /\ files[targets[idx].path].exists
    /\ LET path == targets[idx].path
           original == files[path].data
           r == apply_replacements(original, targets[idx].repls, path)
       IN /\ r[2] # <<>>
          /\ any_changed' = TRUE
          /\ out' = Append(out, EditLine(path, r[2]))
          /\ files' = IF ~check THEN WriteText(files, path, r[1]) ELSE files
    /\ idx' = idx + 1
    /\ UNCHANGED <<pc, targets, check, ret, pre, run, prev>>
    /\ UNCHANGED <<evars, theirs, adds>>

\* A check mode that returns 1 when changes would be made (a CI gate).
ReturnCheckGate ==
    /\ pc = "loop"
    /\ idx > Len(targets)
    /\ check
    /\ ret' = IF any_changed THEN <<1>> ELSE <<0>>
    /\ pc' = "done"
    /\ UNCHANGED <<targets, files, check, idx, any_changed, out, pre, run, prev>>
    /\ UNCHANGED <<evars, theirs, adds>>

\* lines 630-631: if args.check: return 0
ReturnCheck ==
    /\ pc = "loop"
    /\ idx > Len(targets)
    /\ check
    /\ ret' = <<0>>
    /\ pc' = "done"
    /\ UNCHANGED <<targets, files, check, idx, any_changed, out, pre, run, prev>>
    /\ UNCHANGED <<evars, theirs, adds>>

\* An apply-mode return that prints the summary line whatever any_changed is.
ReturnApplyAlways ==
    /\ pc = "loop"
    /\ idx > Len(targets)
    /\ ~check
    /\ out' = Append(out, SummaryLine)
    /\ ret' = <<0>>
    /\ pc' = "done"
    /\ UNCHANGED <<targets, files, check, idx, any_changed, pre, run, prev>>
    /\ UNCHANGED <<evars, theirs, adds>>

\* lines 633-636: print "No changes applied." unless any_changed; return 0
ReturnApply ==
    /\ pc = "loop"
    /\ idx > Len(targets)
    /\ ~check
    /\ out' = IF ~any_changed THEN Append(out, SummaryLine) ELSE out
    /\ ret' = <<0>>
    /\ pc' = "done"
    /\ UNCHANGED <<targets, files, check, idx, any_changed, pre, run, prev>>
    /\ UNCHANGED <<evars, theirs, adds>>

\* the script is started again, with or without --check, on the files as the
\* previous run left them (lines 45-48, 611)
NewRun ==
    /\ pc = "done"
    /\ run < MaxRuns
    /\ \E c \in BOOLEAN : check' = c
    /\ prev' = <<[check |-> check, pre |-> pre, out |-> out]>>
    /\ pre' = files
    /\ run' = run + 1
    /\ pc' = "loop"
    /\ idx' = 1
    /\ any_changed' = FALSE
    /\ out' = <<>>
    /\ ret' = NoRet
    /\ UNCHANGED <<targets, files>>
    /\ UNCHANGED <<evars, theirs, adds>>

Next ==
    \/ MissingFile
    \/ NoChanges
    \/ Edit
    \/ ReturnCheck
    \/ ReturnApply
    \/ NewRun

Spec == Init /\ [][Next]_vars

\* the steps of a run; a started run keeps executing (one thread, no
\* suspension point), a finished one need not be followed by another
RunStep ==
    \/ MissingFile
    \/ NoChanges
    \/ Edit
    \/ ReturnCheck
    \/ ReturnApply

SpecFair == Init /\ [][Next]_vars /\ WF_vars(RunStep)

(***************************************************************************)
(* SpecIO: a run of main in which an I/O call can raise                    *)
(***************************************************************************)
\* the traceback of the uncaught exception: the path being processed and the
\* call that raised
TraceLine(p, op) == [kind |-> "TRACEBACK", path |-> p, labels |-> <<>>, op |-> op]

\* line 613: path.exists() raises (e.g. permission denied on a directory)
ExistsFails ==
    /\ InLoop
    /\ out' = Append(out, TraceLine(targets[idx].path, "exists"))
    /\ pc' = "crashed"
    /\ UNCHANGED <<targets, files, check, idx, any_changed, ret, pre, run, prev>>
    /\ UNCHANGED <<evars, theirs, adds>>

\* A failed read that is logged and skipped (try/except around the body).
ReadFailsContinues ==
    /\ InLoop
    /\ files[targets[idx].path].exists
    /\ out' = Append(out, TraceLine(targets[idx].path, "read_text"))
    /\ idx' = idx + 1
    /\ UNCHANGED <<pc, targets, files, check, any_changed, ret, pre, run, prev>>
    /\ UNCHANGED <<evars, theirs, adds>>

\* line 617: path.read_text raises (permission denied, encoding error)
ReadFails ==
    /\ InLoop
    /\ files[targets[idx].path].exists
    /\ out' = Append(out, TraceLine(targets[idx].path, "read_text"))
    /\ pc' = "crashed"
    /\ UNCHANGED <<targets, files, check, idx, any_changed, ret, pre, run, prev>>
    /\ UNCHANGED <<evars, theirs, adds>>

\* line 628: path.write_text raises, after lines 624-625 have run.  The file
\* is left as it was (open failed) or holds a prefix of the new text (the
\* file was truncated and the write failed part-way).
WriteFails ==
    /\ InLoop
    /\ files[targets[idx].path].exists
    /\ ~check
    /\ LET path == targets[idx].path
           original == files[path].data
           r == apply_replacements(original, targets[idx].repls, path)
       IN /\ r[2] # <<>>
          /\ any_changed' = TRUE
          /\ out' = out \o <<EditLine(path, r[2]), TraceLine(path, "write_text")>>
          /\ \E left \in {files[path]} \cup
                         {File(SubSeq(r[1], 1, n)) : n \in 0..Len(r[1])} :
                files' = [files EXCEPT ![path] = left]
    /\ pc' = "crashed"
    /\ UNCHANGED <<targets, check, idx, ret, pre, run, prev>>
    /\ UNCHANGED <<evars, theirs, adds>>

NextIO ==
    \/ MissingFile
    \/ NoChanges
    \/ Edit
    \/ ReturnCheck
    \/ ReturnApply
    \/ ExistsFails
    \/ ReadFails
    \/ WriteFails

SpecIO == Init /\ [][NextIO]_vars

(***************************************************************************)
(* SpecOrder: the same run again with the targets in another order         *)
(***************************************************************************)
\* the orders a dict with the entries of tbl can have
Orders(tbl) ==
    {[i \in 1..Len(tbl) |-> tbl[f[i]]] :
        f \in {g \in [1..Len(tbl) -> 1..Len(tbl)] :
                  \A i, j \in 1..Len(tbl) : i # j => g[i] # g[j]}}

\* main is run again in the same mode, on the files the previous run started
\* from, with the add calls of lines 55-608 made in another order
RunReordered ==
    /\ pc = "done"
    /\ run < MaxRuns
    /\ targets' \in Orders(targets)
    /\ prev' = <<[check |-> check, pre |-> pre, out |-> out, files |-> files,
                  targets |-> targets]>>
    /\ files' = pre
    /\ run' = run + 1
    /\ pc' = "loop"
    /\ idx' = 1
    /\ any_changed' = FALSE
    /\ out' = <<>>
    /\ ret' = NoRet
    /\ UNCHANGED <<check, pre>>
    /\ UNCHANGED <<evars, theirs, adds>>

NextOrder ==
    \/ MissingFile
    \/ NoChanges
    \/ Edit
    \/ ReturnCheck
    \/ ReturnApply
    \/ RunReordered

SpecOrder == Init /\ [][NextOrder]_vars

(***************************************************************************)
(* SpecRace: one run of main, the body of the loop split where the file is *)
(* read and where it is written back, beside another process that writes   *)
(* to the target files.  The engine's variables hold the locals of main:   *)
(* arg_text is original, text is updated, changed_labels is changed.       *)
(***************************************************************************)
\* the path the loop is processing
CurPath == targets[idx].path

\* lines 613-618: the file exists; read it and run the engine on what was read
ReadText ==
    /\ InLoop
    /\ epc = "idle"
    /\ files[CurPath].exists
    /\ LET original == files[CurPath].data
           r == apply_replacements(original, targets[idx].repls, CurPath)
       IN /\ arg_text' = original
          /\ replacements' = targets[idx].repls
          /\ text' = r[1]
          /\ changed_labels' = r[2]
          /\ k' = Len(targets[idx].repls)
    /\ epc' = "returned"
    /\ theirs' = <<>>
    /\ UNCHANGED <<call, first>>
    /\ UNCHANGED adds
    /\ UNCHANGED <<pc, targets, files, check, idx, any_changed, out, ret, pre,
                   run, prev>>

\* lines 620-622: no rule matched what was read
NoChangesAfterRead ==
    /\ InLoop
    /\ epc = "returned"
    /\ changed_labels = <<>>
    /\ out' = Append(out, OkLine(CurPath))
    /\ idx' = idx + 1
    /\ epc' = "idle"
    /\ UNCHANGED <<arg_text, replacements, text, changed_labels, k, call, first>>
    /\ UNCHANGED adds
    /\ UNCHANGED <<pc, targets, files, check, any_changed, ret, pre, run, prev,
                   theirs>>

\* A write-back that reads the file again and writes the transformation of
\* what it finds then.
WriteBackFresh ==
    /\ InLoop
    /\ epc = "returned"
    /\ changed_labels # <<>>
    /\ any_changed' = TRUE
    /\ out' = Append(out, EditLine(CurPath, changed_labels))
    /\ files' = IF ~check
                THEN WriteText(files, CurPath,
                               apply_replacements(files[CurPath].data,
                                                  targets[idx].repls,
                                                  CurPath)[1])
                ELSE files
    /\ idx' = idx + 1
    /\ epc' = "idle"
    /\ UNCHANGED <<arg_text, replacements, text, changed_labels, k, call, first>>
    /\ UNCHANGED adds
    /\ UNCHANGED <<pc, targets, check, ret, pre, run, prev, theirs>>

\* A write-back that is skipped when updated equals original
\* (if updated != original: path.write_text(updated)).
WriteBackIfDiffers ==
    /\ InLoop
    /\ epc = "returned"
    /\ changed_labels # <<>>
    /\ any_changed' = TRUE
    /\ out' = Append(out, EditLine(CurPath, changed_labels))
    /\ files' = IF ~check /\ text # arg_text
                THEN WriteText(files, CurPath, text) ELSE files
    /\ idx' = idx + 1
    /\ epc' = "idle"
    /\ UNCHANGED <<arg_text, replacements, text, changed_labels, k, call, first>>
    /\ UNCHANGED adds
    /\ UNCHANGED <<pc, targets, check, ret, pre, run, prev, theirs>>

\* lines 624-628: report the edit and, unless --check, write updated
WriteBack ==
    /\ InLoop
    /\ epc = "returned"
    /\ changed_labels # <<>>
    /\ any_changed' = TRUE
    /\ out' = Append(out, EditLine(CurPath, changed_labels))
    /\ files' = IF ~check THEN WriteText(files, CurPath, text) ELSE files
    /\ idx' = idx + 1
    /\ epc' = "idle"
    /\ UNCHANGED <<arg_text, replacements, text, changed_labels, k, call, first>>
    /\ UNCHANGED adds
    /\ UNCHANGED <<pc, targets, check, ret, pre, run, prev, theirs>>

\* another process replaces the content of the file main has read and not
\* yet written back: main takes no lock between lines 617 and 628
OtherWriter ==
    /\ InLoop
    /\ epc = "returned"
    /\ \E t \in FileTexts :
          /\ t # files[CurPath].data
          /\ files' = WriteText(files, CurPath, t)
          /\ theirs' = <<t>>
    /\ UNCHANGED evars
    /\ UNCHANGED adds
    /\ UNCHANGED <<pc, targets, check, idx, any_changed, out, ret, pre, run,
                   prev>>

NextRace ==
    \/ MissingFile
    \/ ReadText
    \/ NoChangesAfterRead
    \/ WriteBack
    \/ ReturnCheck
    \/ ReturnApply
    \/ OtherWriter

SpecRace == Init /\ [][NextRace]_vars

(***************************************************************************)
(* SpecTable: main from its first add call: the table is built one add     *)
(* call at a time, with paths registered more than once, then the run.     *)
(***************************************************************************)
\* the paths of the add calls, in source order
ReAddOrders ==
    {<<"p1", "p2">>, <<"p1", "p1">>, <<"p1", "p2", "p1">>, <<"p2", "p1", "p1">>}

\* the add calls main can consist of
AddCalls ==
    UNION {{[i \in 1..Len(o) |-> [path |-> o[i], repls |-> ls[i]]] :
               ls \in [1..Len(o) -> TableLists]} : o \in ReAddOrders}

\* lines 45-53: main starts with an empty dict; idx counts the add calls made
InitTable ==
    /\ pc = "build"
    /\ adds \in AddCalls
    /\ targets = <<>>
    /\ files \in [Paths -> {File(t) : t \in FileTexts} \cup {Missing}]
    /\ check \in BOOLEAN
    /\ idx = 0
    /\ any_changed = FALSE
    /\ out = <<>>
    /\ ret = NoRet
    /\ pre = files
    /\ run = 1
    /\ prev = <<>>
    /\ theirs = <<>>
    /\ EngineIdle

\* lines 55-608: the next add call
AddCall ==
    /\ pc = "build"
    /\ idx < Len(adds)
    /\ targets' = add(targets, adds[idx + 1].path, adds[idx + 1].repls)
    /\ idx' = idx + 1
    /\ UNCHANGED <<pc, files, check, any_changed, out, ret, pre, run, prev,
                   theirs, adds>>
    /\ UNCHANGED evars

\* lines 611-612: all add calls are made, the loop over targets starts
StartLoop ==
    /\ pc = "build"
    /\ idx = Len(adds)
    /\ pc' = "loop"
    /\ idx' = 1
    /\ UNCHANGED <<targets, files, check, any_changed, out, ret, pre, run,
                   prev, theirs, adds>>
    /\ UNCHANGED evars

NextTable ==
    \/ AddCall
    \/ StartLoop
    \/ MissingFile
    \/ NoChanges
    \/ Edit
    \/ ReturnCheck
    \/ ReturnApply

SpecTable == InitTable /\ [][NextTable]_vars

(***************************************************************************)
(* The engine's contract, stated without the scan of str.replace           *)
(***************************************************************************)
\* the start offsets (0-based) at which old occurs in t
Occ(t, old) ==
    {p \in 0..(Len(t) - Len(old)) : SubSeq(t, p + 1, p + Len(old)) = old}

Occurs(t, old) == Occ(t, old) # {}

\* the occurrences that get replaced: an occurrence counts unless it overlaps
\* a counted occurrence that starts to its left
Counted(t, old) ==
    LET occ == Occ(t, old)
        c[p \in 0..Len(t)] ==
            /\ p \in occ
            /\ \A q \in 0..(p - 1) : (q + Len(old) > p) => ~c[q]
    IN {p \in occ : c[p]}

RECURSIVE Flatten(_)
Flatten(ss) == IF ss = <<>> THEN <<>> ELSE Head(ss) \o Flatten(Tail(ss))

\* t with new in place of every counted occurrence of old
WithNewInPlace(t, old, new) ==
    LET g == Counted(t, old)
        covered(p) == \E q \in g : q <= p /\ p < q + Len(old)
        piece(p) ==
            (IF p \in g THEN new ELSE <<>>)
            \o (IF p < Len(t) /\ ~covered(p) THEN <<t[p + 1]>> ELSE <<>>)
    IN Flatten([i \in 1..(Len(t) + 1) |-> piece(i - 1)])

RECURSIVE FoldFrom(_, _, _, _)
FoldFrom(t, labels, repls, n) ==
    IF n > Len(repls) THEN <<t, labels>>
    ELSE IF Occurs(t, repls[n].old)
         THEN FoldFrom(WithNewInPlace(t, repls[n].old, repls[n].new),
                       Append(labels, repls[n].label), repls, n + 1)
         ELSE FoldFrom(t, labels, repls, n + 1)

Fold(t, repls) == FoldFrom(t, <<>>, repls, 1)

Range(s) == {s[i] : i \in 1..Len(s)}

\* rule lists whose old and new texts are all non-empty and whose labels are
\* pairwise distinct
PlainRules(repls) ==
    /\ \A i \in 1..Len(repls) : repls[i].old # <<>> /\ repls[i].new # <<>>
    /\ \A i, j \in 1..Len(repls) : i # j => repls[i].label # repls[j].label

NoCross(repls) ==
    \A i, j \in 1..Len(repls) :
        i # j => ~Occurs(repls[i].new, repls[j].old)

\* the rule the loop is about to try
NextRule == replacements[k + 1]

Trying == epc = "loop" /\ k < Len(replacements) /\ k' = k + 1

\* C1: what apply_replacements returns is the sequential fold of the rules
\* over the text: a rule whose old occurs in the current text replaces every
\* occurrence and adds its label, any other rule changes nothing.
C1_ReturnsFold ==
    epc = "returned" => <<text, changed_labels>> = Fold(arg_text, replacements)

C1_Witness ==
    /\ epc = "returned"
    /\ Len(replacements) = 2
    /\ Len(changed_labels) = 1
    /\ text # arg_text
    /\ Cardinality(Counted(arg_text, replacements[1].old)) = 2

\* C2 as stated: every rule whose old is in the INPUT text has its label in
\* the result and its new in the output (already false for rule lists with
\* non-empty old and new texts and distinct labels).
C2_Original ==
    (epc = "returned" /\ call = 1 /\ PlainRules(replacements)) =>
        \A i \in 1..Len(replacements) :
            Occurs(arg_text, replacements[i].old) =>
                /\ replacements[i].label \in Range(changed_labels)
                /\ Occurs(text, replacements[i].new)

\* C2 (amended): a rule whose old occurs in the text current when the rule is
\* tried leaves that text with new in place of every occurrence of old, and
\* its label is appended.
C2_PresentRuleFires ==
    [][(Trying /\ Occurs(text, NextRule.old)) =>
          /\ text' = WithNewInPlace(text, NextRule.old, NextRule.new)
          /\ changed_labels' = Append(changed_labels, NextRule.label)]_vars

\* the second rule fired on text that only the first rule put there
C2_Witness ==
    /\ epc = "loop" /\ call = 1 /\ k = 2
    /\ Len(changed_labels) = 2
    /\ ~Occurs(arg_text, replacements[2].old)

\* C3 as stated: a rule whose old is absent from the INPUT text never has its
\* label in the result (already false for rule lists with non-empty old and
\* new texts and distinct labels).
C3_Original ==
    (epc = "returned" /\ call = 1 /\ PlainRules(replacements)) =>
        \A i \in 1..Len(replacements) :
            ~Occurs(arg_text, replacements[i].old) =>
                replacements[i].label \notin Range(changed_labels)

\* C3 (amended): a rule whose old does not occur in the text current when the
\* rule is tried leaves the text and the applied labels as they are.
C3_AbsentRuleSkips ==
    [][(Trying /\ ~Occurs(text, NextRule.old)) =>
          /\ text' = text
          /\ changed_labels' = changed_labels]_vars

\* the second rule's old was in the input, the first rule removed it, and the
\* second rule was skipped
C3_Witness ==
    /\ epc = "loop" /\ call = 1 /\ k = 2
    /\ Len(changed_labels) = 1
    /\ Occurs(arg_text, replacements[2].old)
    /\ ~Occurs(text, replacements[2].old)

\* C4: the applied labels are the labels of a subsequence of the rules tried
\* so far, in rule order, one label per rule at most; never more labels than
\* rules.
C4_LabelsSubsequence ==
    /\ Len(changed_labels) <= Len(replacements)
    /\ epc # "idle" =>
         \E S \in SUBSET (1..k) :
            /\ Cardinality(S) = Len(changed_labels)
            /\ \A n \in 1..Len(changed_labels) :
                  \E i \in S :
                     /\ Cardinality({j \in S : j <= i}) = n
                     /\ changed_labels[n] = replacements[i].label

\* one rule replaced two occurrences and contributed one label; the other
\* rule, with the other label, did not fire
C4_Witness ==
    /\ epc = "returned"
    /\ Len(replacements) = 2
    /\ replacements[1].label # replacements[2].label
    /\ changed_labels = <<replacements[2].label>>
    /\ Cardinality(Counted(arg_text, replacements[2].old)) = 2

\* C5 as stated: when no rule's new contains another rule's old, the second
\* application returns the text of the first (already false for rule lists
\* whose old texts are all non-empty).
C5_Original ==
    (/\ epc = "returned" /\ call = 2
     /\ \A i \in 1..Len(replacements) : replacements[i].old # <<>>
     /\ NoCross(replacements)) => text = first[1]

\* C5 (amended): when no rule's old occurs in the text the first application
\* returned, applying the engine to that text with the same rules returns the
\* same text and applies no rule.
C5_IdempotentWhenNoOldLeft ==
    (/\ epc = "returned" /\ call = 2
     /\ \A i \in 1..Len(replacements) : ~Occurs(first[1], replacements[i].old)) =>
        /\ text = first[1]
        /\ changed_labels = <<>>

C5_Witness ==
    /\ epc = "returned" /\ call = 2
    /\ \A i \in 1..Len(replacements) : ~Occurs(first[1], replacements[i].old)
    /\ Len(first[2]) = 2
    /\ text = first[1]

(***************************************************************************)
(* The run driver's contract                                               *)
(***************************************************************************)
\* the lines a console output holds for path p, in print order
LinesFor(o, p) == SelectSeq(o, LAMBDA l : l.path = p)

Done == pc = "done"

\* the run before the current one was a check-mode run, the current one is an
\* apply-mode run
CheckThenApply == Done /\ prev # <<>> /\ prev[1].check /\ ~check

\* C6: in check mode no target file is written: at every point of a
\* check-mode run every path has the content, or the absence, it had when the
\* run started.
C6_CheckWritesNothing == (pc # "idle" /\ check) => files = pre

\* a finished check-mode run that reported an edit and met a missing file
C6_Witness ==
    /\ Done /\ check /\ any_changed
    /\ \E i \in 1..Len(targets) : ~pre[targets[i].path].exists

\* C7: after a completed apply-mode run every target file that existed holds
\* the text the engine's contract gives for its pre-run content and its own
\* rule list.
C7_ApplyWritesEngineOutput ==
    (Done /\ ~check) =>
        \A i \in 1..Len(targets) :
            LET p == targets[i].path IN
            pre[p].exists =>
                files[p] = File(Fold(pre[p].data, targets[i].repls)[1])

\* a finished apply-mode run that changed one file and left another as it was
C7_Witness ==
    /\ Done /\ ~check /\ Len(targets) = 2
    /\ pre[targets[1].path].exists /\ pre[targets[2].path].exists
    /\ files[targets[1].path] # pre[targets[1].path]
    /\ files[targets[2].path] = pre[targets[2].path]

\* C8: a check-mode run followed by an apply-mode run reports the same lines,
\* hence the same labels, for every file, and the check-mode run left every
\* file as it found it.
C8_CheckThenApplySameLabels ==
    CheckThenApply =>
        /\ pre = prev[1].pre
        /\ \A p \in Paths : LinesFor(out, p) = LinesFor(prev[1].out, p)

\* both runs reported an edit and the apply-mode run changed a file
C8_Witness ==
    /\ CheckThenApply
    /\ any_changed
    /\ files # pre

\* C9: the whole console output of a check-mode run equals that of an
\* apply-mode run started from the same files.
C9_Original ==
    (CheckThenApply /\ pre = prev[1].pre) => out = prev[1].out

\* C10: a missing target gets one warning line, is not created, and the run
\* goes on and returns; every other target gets the line and the content that
\* its own pre-run content and rules give, whatever files are missing.
C10_MissingFileWarnsAndContinues ==
    Done =>
        /\ ret = <<0>>
        /\ \A i \in 1..Len(targets) :
              LET p == targets[i].path
                  r == Fold(pre[p].data, targets[i].repls)
              IN IF ~pre[p].exists
                 THEN /\ LinesFor(out, p) = <<WarnLine(p)>>
                      /\ files[p] = Missing
                 ELSE /\ LinesFor(out, p) =
                            <<IF r[2] = <<>> THEN OkLine(p) ELSE EditLine(p, r[2])>>
                      /\ files[p] = IF check THEN pre[p] ELSE File(r[1])

\* the first target was missing and the second one was then edited
C10_Witness ==
    /\ Done /\ ~check /\ Len(targets) = 2
    /\ ~pre[targets[1].path].exists
    /\ pre[targets[2].path].exists
    /\ files[targets[2].path] # pre[targets[2].path]

\* the report and the files of the run as the engine's contract gives them
Expected(i) == Fold(pre[targets[i].path].data, targets[i].repls)

\* C11: the exit status (main's return value, line 640) is 0 for every
\* finished run, in both modes, whether or not a file changed or was missing.
C11_ExitStatusZero ==
    /\ Done => ret = <<0>>
    /\ ~Done => ret = <<>>

\* a finished check-mode run and a finished apply-mode run before it, both
\* with an edit reported and a file missing
C11_Witness ==
    /\ Done /\ check /\ any_changed /\ ret = <<0>>
    /\ prev # <<>> /\ ~prev[1].check
    /\ \E p \in Paths : ~files[p].exists

\* C12: every target has exactly one report line, and its form follows the
\* file's state: the warning iff the file is missing, 'no changes' iff it
\* exists and no rule matched, the edit line with exactly the applied labels
\* iff it exists and some rule matched.
C12_OneLinePerTarget ==
    Done =>
        \A i \in 1..Len(targets) :
            LET p == targets[i].path
                ls == LinesFor(out, p)
            IN /\ Len(ls) = 1
               /\ ls[1].kind \in {"WARN", "OK", "EDIT"}
               /\ (ls[1].kind = "WARN") <=> ~pre[p].exists
               /\ (ls[1].kind = "OK") <=>
                     (pre[p].exists /\ Expected(i)[2] = <<>>)
               /\ (ls[1].kind = "EDIT") <=>
                     (pre[p].exists /\ Expected(i)[2] # <<>>)
               /\ (ls[1].kind = "EDIT") => ls[1].labels = Expected(i)[2]

\* one run with an unchanged file and an edited file, the edit with two labels
C12_Witness ==
    /\ Done /\ Len(targets) = 2
    /\ \E n \in 1..Len(out) : out[n].kind = "OK"
    /\ \E n \in 1..Len(out) : out[n].kind = "EDIT" /\ Len(out[n].labels) = 2

\* C13: a finished dry-run in which no file had changes ends with the summary
\* line.
C13_Original ==
    (Done /\ check /\ ~any_changed) =>
        (out # <<>> /\ out[Len(out)] = SummaryLine)

\* the labels a console output reports for path p
LabelsFor(o, p) == [n \in 1..Len(LinesFor(o, p)) |-> LinesFor(o, p)[n].labels]

\* two targets with the same text and the same rule list
SameInputs(i, j) ==
    /\ pre[targets[i].path].exists /\ pre[targets[j].path].exists
    /\ pre[targets[i].path].data = pre[targets[j].path].data
    /\ targets[i].repls = targets[j].repls

\* the calls made for two such targets returned the same labels and, where
\* the text was written, the same text
SameInputsSameResult ==
    \A i, j \in 1..Len(targets) :
        SameInputs(i, j) =>
            /\ LabelsFor(out, targets[i].path) = LabelsFor(out, targets[j].path)
            /\ ~check => files[targets[i].path] = files[targets[j].path]

C15_EngineNeverFails ==
    /\ epc = "loop" => (k <= Len(replacements) /\ ENABLED (Iterate \/ Return))
    /\ epc = "returned" =>
          /\ k = Len(replacements)
          /\ Range(text) \subseteq Chars
          /\ Range(changed_labels) \subseteq
                {replacements[i].label : i \in 1..Len(replacements)}

\* a call with two rules, none of which matched a non-empty text, returned
C15_Witness ==
    /\ epc = "returned"
    /\ Len(replacements) = 2
    /\ arg_text # <<>>
    /\ text = arg_text
    /\ changed_labels = <<>>

Crashed == pc = "crashed"

\* C16: a failed I/O call ends the run at that file: its traceback is the
\* last thing printed, nothing is enabled afterwards (no retry, no return),
\* no later target has a line or a changed file, and the targets processed
\* before it keep what the run gave them.
C16_FailureEndsRun ==
    /\ \A n \in 1..Len(out) :
          out[n].kind = "TRACEBACK" =>
              /\ n = Len(out)
              /\ Crashed
              /\ out[n].path = targets[idx].path
    /\ Crashed =>
          /\ ret = <<>>
          /\ ~ENABLED NextIO
          /\ \A j \in (idx + 1)..Len(targets) :
                /\ LinesFor(out, targets[j].path) = <<>>
                /\ files[targets[j].path] = pre[targets[j].path]
          /\ \A j \in 1..(idx - 1) :
                /\ Len(LinesFor(out, targets[j].path)) = 1
                /\ pre[targets[j].path].exists =>
                      files[targets[j].path] =
                          IF check THEN pre[targets[j].path]
                          ELSE File(Expected(j)[1])

\* the write of the second target failed after the first target had been
\* rewritten
C16_Witness ==
    /\ Crashed /\ ~check /\ Len(targets) = 2 /\ idx = 2
    /\ files[targets[1].path] # pre[targets[1].path]
    /\ Len(LinesFor(out, targets[2].path)) = 2

\* C17: two completed runs from the same files, with the targets in any two
\* orders, end with the same content in every file and the same lines (form
\* and labels) for every file.
C17_OrderIrrelevant ==
    (Done /\ prev # <<>>) =>
        /\ files = prev[1].files
        /\ \A p \in Paths : LinesFor(out, p) = LinesFor(prev[1].out, p)

\* two apply-mode runs in opposite orders, one target missing and one edited
C17_Witness ==
    /\ Done /\ prev # <<>> /\ ~check
    /\ Len(targets) = 2
    /\ targets # prev[1].targets
    /\ ~pre[targets[1].path].exists
    /\ files[targets[2].path] # pre[targets[2].path]

\* C18: within a run the loop moves forward one target at a time and never
\* back, no target gets a second line, a file changes only in the step that
\* processes it, and a run (no I/O call failing) goes on to process every
\* target and return.
C18_OnePassThenDone ==
    /\ [][run' = run =>
            /\ idx' \in {idx, idx + 1}
            /\ \A p \in Paths : Len(LinesFor(out', p)) <= 1
            /\ \A p \in Paths :
                  files'[p] # files[p] =>
                      (idx' = idx + 1 /\ p = targets[idx].path)]_vars
    /\ (pc = "loop") ~> (pc = "done" /\ idx = Len(targets) + 1)

\* a second run has processed both of its targets and returned
C18_Witness ==
    /\ Done /\ run = 2
    /\ Len(targets) = 2
    /\ idx = 3
    /\ \A i \in 1..2 : Len(LinesFor(out, targets[i].path)) = 1

NoDuplicate(ls) == \A i, j \in 1..Len(ls) : i # j => ls[i] # ls[j]

RuleLabels(repls) == [i \in 1..Len(repls) |-> repls[i].label]

\* C19: no two rules that main registers for one path share a label, and the
\* labels a run reports for a file whose rules have distinct labels never
\* contain a duplicate.
C19_LabelsUniquePerFile ==
    /\ \A i \in 1..Len(MainLabels) : NoDuplicate(MainLabels[i].labels)
    /\ pc # "idle" =>
          \A i \in 1..Len(targets) :
              NoDuplicate(RuleLabels(targets[i].repls)) =>
                  \A n \in 1..Len(out) :
                      out[n].path = targets[i].path => NoDuplicate(out[n].labels)

\* a file with two rules was reported with both of its labels
C19_Witness ==
    /\ Done
    /\ \E i \in 1..Len(targets) :
          /\ Len(targets[i].repls) = 2
          /\ NoDuplicate(RuleLabels(targets[i].repls))
          /\ LabelsFor(out, targets[i].path) = <<RuleLabels(targets[i].repls)>>

\* the path was reported as edited with at least one label
ReportedEdited(p) ==
    \E n \in 1..Len(out) :
        out[n].kind = "EDIT" /\ out[n].path = p /\ out[n].labels # <<>>

\* C20: a step changes the content of a path only in apply mode, for the
\* target it is processing, when that file exists and at least one of its
\* rules matches; so in every state of a run a file reported 'no changes' has
\* the content it had before the run, a file missing before the run is still
\* missing, and a file whose content differs was reported as edited with at
\* least one label.
C20_WritesOnlyWhenMatched ==
    /\ [][\A p \in Paths :
             files'[p] # files[p] =>
                 /\ ~check
                 /\ InLoop
                 /\ p = targets[idx].path
                 /\ files[p].exists
                 /\ Fold(files[p].data, targets[idx].repls)[2] # <<>>]_vars
    /\ [](\A p \in Paths :
             /\ (\E n \in 1..Len(out) : out[n] = OkLine(p)) => files[p] = pre[p]
             /\ ~pre[p].exists => files[p] = Missing
             /\ files[p] # pre[p] => ReportedEdited(p))

\* an apply run passed over a file whose rules did not match and changed
\* another, which it reported as edited
C20_Witness ==
    /\ Done
    /\ ~check
    /\ Len(targets) = 2
    /\ files[targets[1].path] = pre[targets[1].path]
    /\ LinesFor(out, targets[1].path) = <<OkLine(targets[1].path)>>
    /\ files[targets[2].path] # pre[targets[2].path]
    /\ ReportedEdited(targets[2].path)

\* the text left by the rules the loop has consumed so far
TextLeftByEarlier == Fold(arg_text, SubSeq(replacements, 1, k))[1]

\* C21: the text a rule is tested against is the text left by all earlier
\* rules, and the rule fires exactly when its old occurs in that text.  So a
\* rule whose old is absent from the original text but present in the current
\* one fires and its label is appended, and a rule whose old was in the
\* original text but is no longer in the current one changes nothing.
C21_TestedAgainstCurrentText ==
    [][Trying =>
          /\ text = TextLeftByEarlier
          /\ (changed_labels' = Append(changed_labels, NextRule.label))
                <=> Occurs(text, NextRule.old)
          /\ (~Occurs(arg_text, NextRule.old) /\ Occurs(text, NextRule.old)) =>
                /\ changed_labels' = Append(changed_labels, NextRule.label)
                /\ text' = WithNewInPlace(text, NextRule.old, NextRule.new)
          /\ (Occurs(arg_text, NextRule.old) /\ ~Occurs(text, NextRule.old)) =>
                UNCHANGED <<text, changed_labels>>]_vars

\* the second rule's old occurs only in what the first rule inserted, and
\* both labels were returned
C21_Witness ==
    /\ epc = "returned"
    /\ call = 1
    /\ Len(replacements) = 2
    /\ ~Occurs(arg_text, replacements[2].old)
    /\ Occurs(replacements[1].new, replacements[2].old)
    /\ replacements[1].label # replacements[2].label
    /\ changed_labels = <<replacements[1].label, replacements[2].label>>

\* how many times "No changes applied." is on the console
SummaryCount == Len(SelectSeq(out, LAMBDA l : l = SummaryLine))

\* some target file existed when the run started and one of its rules matched
AnyMatched ==
    \E i \in 1..Len(targets) :
        pre[targets[i].path].exists /\ Expected(i)[2] # <<>>

\* C22: "No changes applied." is never printed before the run ends; a
\* finished apply-mode run has it, once and as its last line, exactly when no
\* existing target had a matching rule; a finished check-mode run never has it.
C22_SummaryLineExactlyWhenNothingMatched ==
    /\ ~Done => SummaryCount = 0
    /\ Done =>
          IF ~check /\ ~AnyMatched
          THEN SummaryCount = 1 /\ out[Len(out)] = SummaryLine
          ELSE SummaryCount = 0

\* an apply run over a missing file and a file without a match
C22_Witness ==
    /\ Done
    /\ ~check
    /\ Len(targets) = 2
    /\ out = <<WarnLine(targets[1].path), OkLine(targets[2].path), SummaryLine>>

\* main has read the file it is processing and has not yet finished with it
InWindow == pc = "loop" /\ epc = "returned"

\* the step in which main writes the file back
ToolWrites == InWindow /\ epc' = "idle" /\ changed_labels # <<>> /\ ~check

\* C23: between reading a file and writing it back main holds no lock:
\* another writer's step is enabled in that window.  When main then writes,
\* the file becomes the transformation of the text main read, whatever the
\* other writer put there, and no other file changes.  Without a write by
\* another process in the window, the file still holds what main read.
C23_WriteBackOverwritesConcurrentChange ==
    /\ [][ToolWrites =>
             files' = [files EXCEPT
                          ![CurPath] = File(Fold(arg_text,
                                                 targets[idx].repls)[1])]]_vars
    /\ []((InWindow /\ theirs = <<>>) => files[CurPath] = File(arg_text))
    /\ [](InWindow => ENABLED OtherWriter)

\* main wrote the transformation of what it had read over a text that another
\* writer had put into the file after the read, and whose own transformation
\* would have been different
C23_Witness ==
    /\ pc = "loop"
    /\ epc = "idle"
    /\ ~check
    /\ idx > 1
    /\ theirs # <<>>
    /\ theirs[1] # arg_text
    /\ files[targets[idx - 1].path] = File(Fold(arg_text, replacements)[1])
    /\ Fold(theirs[1], replacements)[1] # Fold(arg_text, replacements)[1]
    /\ theirs[1] # Fold(arg_text, replacements)[1]

\* rule j of the engine's last call has old = new, and its old occurred in the
\* text it was tested against
IdentityFired(j) ==
    /\ replacements[j].old = replacements[j].new
    /\ Occurs(Fold(arg_text, SubSeq(replacements, 1, j - 1))[1],
              replacements[j].old)

\* C24: when a rule with old = new matched, its label is among the labels
\* returned, and the step that finishes the file prints an EDIT line with the
\* returned labels and, in apply mode, writes the returned text; when no
\* other rule changed the text, what is written is exactly what was read.
C24_IdentityRuleCountsAsEdit ==
    /\ [](InWindow =>
             \A j \in 1..Len(replacements) :
                 IdentityFired(j) =>
                     replacements[j].label \in Range(changed_labels))
    /\ [][(InWindow /\ epc' = "idle"
              /\ \E j \in 1..Len(replacements) : IdentityFired(j)) =>
             /\ out' = Append(out, EditLine(CurPath, changed_labels))
             /\ ~check => files'[CurPath] = File(text)
             /\ (~check /\ text = arg_text) =>
                   files'[CurPath] = File(arg_text)]_vars

\* an apply run reported a file as edited, by the label of a rule with
\* old = new only, and the file holds what it held before the run
C24_Witness ==
    /\ pc = "loop"
    /\ epc = "idle"
    /\ ~check
    /\ idx > 1
    /\ theirs = <<>>
    /\ Len(replacements) = 2
    /\ replacements[2].old = replacements[2].new
    /\ changed_labels = <<replacements[2].label>>
    /\ out[Len(out)] = EditLine(targets[idx - 1].path, changed_labels)
    /\ files[targets[idx - 1].path] = pre[targets[idx - 1].path]
    /\ files[targets[idx - 1].path] = File(arg_text)

\* t with new before each of its characters and once more at the end
NewAroundEveryChar(t, new) ==
    Flatten([i \in 1..(Len(t) + 1) |->
                new \o (IF i <= Len(t) THEN <<t[i]>> ELSE <<>>)])

\* C25: a rule whose old is the empty string fires on every text, the empty
\* text included: its label is appended, and the text becomes the old text
\* with new before every character and at the end.
C25_EmptyOldAlwaysFires ==
    [][(Trying /\ NextRule.old = <<>>) =>
          /\ changed_labels' = Append(changed_labels, NextRule.label)
          /\ text' = NewAroundEveryChar(text, NextRule.new)
          /\ Len(text') = Len(text) + (Len(text) + 1) * Len(NextRule.new)
          /\ text = <<>> => text' = NextRule.new]_vars

\* a single rule with empty old and a one-character new, on a text of two
\* characters
C25_Witness ==
    /\ epc = "returned"
    /\ call = 1
    /\ Len(replacements) = 1
    /\ replacements[1].old = <<>>
    /\ Len(replacements[1].new) = 1
    /\ Len(arg_text) = 2
    /\ changed_labels = <<replacements[1].label>>
    /\ text = replacements[1].new \o <<arg_text[1]>> \o replacements[1].new
                 \o <<arg_text[2]>> \o replacements[1].new

\* the number of add calls made so far
AddsMade == IF pc = "build" THEN idx ELSE Len(adds)

\* the add calls made so far that name path p
CallsFor(p) == {j \in 1..AddsMade : adds[j].path = p}

\* the rules of the last add call made for p
LastRules(p) ==
    adds[CHOOSE j \in CallsFor(p) : \A h \in CallsFor(p) : h <= j].repls

\* C26: the table has exactly one entry for every path registered so far and
\* none for any other; the entry holds the rules of the path's last add call
\* alone.  The run prints at most one line per path, and a finished run has
\* processed each path once, with those rules.
C26_LastRegistrationWins ==
    /\ \A i, j \in 1..Len(targets) : i # j => targets[i].path # targets[j].path
    /\ {targets[i].path : i \in 1..Len(targets)}
          = {p \in Paths : CallsFor(p) # {}}
    /\ \A i \in 1..Len(targets) :
          targets[i].repls = LastRules(targets[i].path)
    /\ \A p \in Paths : Len(LinesFor(out, p)) <= 1
    /\ Done =>
          \A p \in Paths :
              (CallsFor(p) # {} /\ pre[p].exists) =>
                  LET r == Fold(pre[p].data, LastRules(p))
                  IN /\ LinesFor(out, p) =
                           <<IF r[2] = <<>> THEN OkLine(p)
                             ELSE EditLine(p, r[2])>>
                     /\ ~check => files[p] = File(r[1])

\* a path was registered twice with different rules; the finished apply run
\* edited its file once, with the rules of the second call, and the rules of
\* the two calls together would have given another text
C26_Witness ==
    /\ Done
    /\ ~check
    /\ \E p \in Paths :
          /\ Cardinality(CallsFor(p)) = 2
          /\ \E j \in CallsFor(p) : adds[j].repls # LastRules(p)
          /\ pre[p].exists
          /\ files[p] # pre[p]
          /\ files[p] = File(Fold(pre[p].data, LastRules(p))[1])
          /\ \E j \in CallsFor(p) :
                Fold(pre[p].data, adds[j].repls \o LastRules(p))[1]
                   # files[p].data
          /\ Len(LinesFor(out, p)) = 1

====
